---------------------------- MODULE Spec2Model ----------------------------
(***************************************************************************)
(* pdf_rasterizer: a PDF is rendered page by page to pixels, every page is *)
(* un-premultiplied, encoded as JPEG and placed on a page of a new PDF.    *)
(*                                                                         *)
(*   src/src/lib.rs   rasterize_pdf (batch driver), process_page,          *)
(*                    rasterize_pdf_with_progress (cooperative driver)     *)
(*   src/src/main.rs  rasterize_pdf of the command line variant            *)
(*                                                                         *)
(* The parser and renderer (hayro), the JPEG codec (image) and the object  *)
(* store (lopdf, printpdf) are collaborators: their results are inputs of  *)
(* the model, chosen in Init.                                              *)
(***************************************************************************)
EXTENDS Integers, Sequences, FiniteSets, TLC

VARIABLES
    \* ---- the input of one conversion -------------------------------------
    parse_ok,      \* Pdf::new(..) returned Ok
    pages,         \* pdf.pages(): per source page the outcome of rendering and encoding it
    dpi,           \* the dpi argument
    save_ok,       \* doc.save_to(..) returns Ok
    \* ---- process_page's un-premultiply loop on one chunk -------------------
    rgba_data,     \* the chunk <<r, g, b, a>> read from the pixmap
    rgb_data,      \* the bytes pushed for it
    px_pc,         \* "chunk" before the loop body, "pushed" after it
    \* ---- rasterize_pdf of lib.rs (batch driver) ----------------------------
    b_pc,          \* position in rasterize_pdf
    b_pending,     \* page indices whose worker has not completed
    b_collected,   \* the workers' results, in completion order
    b_image_data,  \* image_data
    b_page_num,    \* page_num of the assembly loop
    b_doc,         \* doc
    b_result,      \* the returned Result, [tag |-> "None"] until the function returns
    \* ---- rasterize_pdf_with_progress of lib.rs (cooperative driver) --------
    c_pc,          \* position in rasterize_pdf_with_progress
    c_waiting,     \* suspended in TimeoutFuture::new(..).await
    c_image_data,  \* image_data
    c_page_num,    \* page_index of the render loop, then page_num of the assembly loop
    c_doc,         \* doc
    c_events,      \* the messages handed to progress_callback, in order
    c_result,      \* the returned Result
    c_since_resume,\* history: pages converted or built since the last await completed
    \* ---- rasterize_pdf of main.rs (command line variant) -------------------
    io_fail,       \* input: the file-system operation that fails, or "none"
    m_pc,          \* position in rasterize_pdf
    m_image_files, \* image_files: per written JPEG the page it was rendered from
    m_page_index,  \* page_index of the current loop
    m_doc_pages,   \* pages of doc_pdf: size in mm and the images on the layer
    m_result,      \* the returned Result, or [tag |-> "Panic"]
    \* ---- App of app.rs (browser front end) --------------------------------
    a_file,        \* App.file
    a_processing,  \* App.processing
    a_result,      \* App.result
    a_file_reader, \* App.file_reader: the file being read and whether the read is over
    a_dpi,         \* App.dpi
    a_file_name,   \* App.file_name
    a_progress_message, \* App.progress_message
    a_tasks        \* the futures handed to spawn_local that have not completed

input_vars == <<parse_ok, pages, dpi, save_ok>>
pixel_vars == <<rgba_data, rgb_data, px_pc>>
batch_vars == <<b_pc, b_pending, b_collected, b_image_data, b_page_num, b_doc, b_result>>
coop_vars  == <<c_pc, c_waiting, c_image_data, c_page_num, c_doc, c_events, c_result,
               c_since_resume>>
main_vars  == <<io_fail, m_pc, m_image_files, m_page_index, m_doc_pages, m_result>>

app_vars   == <<a_file, a_processing, a_result, a_file_reader, a_dpi, a_file_name,
               a_progress_message, a_tasks>>

vars == <<input_vars, pixel_vars, batch_vars, coop_vars, main_vars, app_vars>>

\* what a step of one of the four pieces of code leaves alone
not_pixel == <<input_vars, batch_vars, coop_vars, main_vars, app_vars>>
not_batch == <<input_vars, pixel_vars, coop_vars, main_vars, app_vars>>
not_coop  == <<input_vars, pixel_vars, batch_vars, main_vars, app_vars>>
not_main  == <<input_vars, pixel_vars, batch_vars, coop_vars, app_vars>>
not_app   == <<input_vars, pixel_vars, batch_vars, coop_vars, main_vars>>

-----------------------------------------------------------------------------
(***************************************************************************)
(* f32 arithmetic.  A finite non-negative f32 is [m, e] with value m * 2^e *)
(* and 2^23 <= m < 2^24, or m = 0.  Operations round to nearest, ties to   *)
(* even, as IEEE 754 binary32 does.  Products are formed in 12-bit limbs   *)
(* so that no intermediate value leaves the 32-bit integers.               *)
(***************************************************************************)
Pow2(n) == 2 ^ n

MantBits == 24

F32Zero == [m |-> 0, e |-> 0]

RECURSIVE F32Normalize(_, _)
\* shift a non-zero integer below 2^24 left until its top bit is bit 23
F32Normalize(m, e) ==
    IF m >= Pow2(MantBits - 1) THEN [m |-> m, e |-> e] ELSE F32Normalize(2 * m, e - 1)

\* `n as f32` for an integer 0 <= n < 2^24 (exact)
F32FromInt(n) == IF n = 0 THEN F32Zero ELSE F32Normalize(n, 0)

\* round-to-nearest-even of mantissa m with remainder rem out of unit (rem < unit)
F32Round(m, e, rem, unit) ==
    LET up == (2 * rem > unit) \/ (2 * rem = unit /\ m % 2 = 1)
        m1 == IF up THEN m + 1 ELSE m
    IN  IF m1 = Pow2(MantBits) THEN [m |-> Pow2(MantBits - 1), e |-> e + 1]
        ELSE [m |-> m1, e |-> e]

RECURSIVE F32DivBits(_, _, _, _)
\* long division: q quotient bits so far, r remainder (< d), e exponent of q's unit
F32DivBits(q, r, d, e) ==
    IF q >= Pow2(MantBits - 1) THEN F32Round(q, e, r, d)
    ELSE F32DivBits(2 * q + (IF 2 * r >= d THEN 1 ELSE 0),
                    IF 2 * r >= d THEN 2 * r - d ELSE 2 * r, d, e - 1)

\* (n as f32) / (d as f32) for integers 0 <= n < 2^24, 0 < d < 2^24
F32DivInt(n, d) ==
    IF n = 0 THEN F32Zero ELSE F32DivBits(n \div d, n % d, d, 0)

\* x * y
F32Mul(x, y) ==
    IF x.m = 0 \/ y.m = 0 THEN F32Zero
    ELSE LET L   == Pow2(12)
             a1  == x.m \div L
             a0  == x.m % L
             b1  == y.m \div L
             b0  == y.m % L
             lo  == a0 * b0
             mid == a1 * b0 + a0 * b1 + (lo \div L)
             H   == a1 * b1 + (mid \div L)               \* product \div 2^24
             R   == (mid % L) * L + (lo % L)             \* product %    2^24
         IN  IF H >= Pow2(MantBits - 1)
             THEN F32Round(H, x.e + y.e + 24, R, Pow2(24))
             ELSE F32Round(2 * H + (R \div Pow2(23)), x.e + y.e + 23,
                           R % Pow2(23), Pow2(23))

\* x >= n for an integer 0 < n < 2^24
F32GeInt(x, n) ==
    /\ x.m # 0
    /\ IF x.e >= 0 THEN TRUE
       ELSE IF x.e < -(MantBits - 1) THEN FALSE
       ELSE x.m >= n * Pow2(-x.e)

\* x.min(n as f32)
F32MinInt(x, n) == IF F32GeInt(x, n) THEN F32FromInt(n) ELSE x

\* floor(x * 2^k) for a value x * 2^k below 2^24: the value truncated to k binary places
F32Trunc(x, k) ==
    IF x.m = 0 THEN 0
    ELSE IF x.e + k >= 0 THEN x.m * Pow2(x.e + k)
    ELSE IF -(x.e + k) >= MantBits THEN 0
    ELSE x.m \div Pow2(-(x.e + k))

\* `x as u8`: truncation toward zero, saturating at 255
F32AsU8(x) == IF F32GeInt(x, 255) THEN 255 ELSE F32Trunc(x, 0)

-----------------------------------------------------------------------------
(***************************************************************************)
(* process_page, lines 213-230: the un-premultiply loop body.              *)
(***************************************************************************)
U8 == 0 .. 255

\* lines 221-224: one channel of a chunk whose alpha a is > 0
UnpremultiplyChannel(c, a) ==
    LET factor == F32DivInt(255, a)
    IN  F32AsU8(F32MinInt(F32Mul(F32FromInt(c), factor), 255))

\* a fully transparent chunk keeps its premultiplied channel values
UnpremultiplyKeepsTransparent(chunk) ==
    IF chunk[4] > 0
    THEN <<UnpremultiplyChannel(chunk[1], chunk[4]), UnpremultiplyChannel(chunk[2], chunk[4]),
           UnpremultiplyChannel(chunk[3], chunk[4])>>
    ELSE <<chunk[1], chunk[2], chunk[3]>>

\* the channels pushed in the order b, g, r
UnpremultiplyBgr(chunk) ==
    IF chunk[4] > 0
    THEN <<UnpremultiplyChannel(chunk[3], chunk[4]), UnpremultiplyChannel(chunk[2], chunk[4]),
           UnpremultiplyChannel(chunk[1], chunk[4])>>
    ELSE <<0, 0, 0>>

\* lines 214-229: the three bytes pushed for the chunk <<r, g, b, a>>
Unpremultiply(chunk) ==
    LET r == chunk[1]
        g == chunk[2]
        b == chunk[3]
        a == chunk[4]
    IN  IF a > 0
        THEN <<UnpremultiplyChannel(r, a), UnpremultiplyChannel(g, a),
               UnpremultiplyChannel(b, a)>>
        ELSE <<0, 0, 0>>

\* the chunks of the model: every channel value meets every alpha on each of the
\* three channels (the three pushes are independent expressions)
Chunks == { <<r, 255 - r, (r + 128) % 256, a>> : r \in U8, a \in U8 }

\* one pass through the body of `for chunk in rgba_data.chunks_exact(4)`
ConvertChunk ==
    /\ px_pc = "chunk"
    /\ rgb_data' = rgb_data \o Unpremultiply(rgba_data)
    /\ px_pc' = "pushed"
    /\ UNCHANGED <<rgba_data, not_pixel>>

PixelIdle == rgba_data = <<0, 0, 0, 0>> /\ rgb_data = <<>> /\ px_pc = "idle"

-----------------------------------------------------------------------------
(***************************************************************************)
(* The input of a conversion.                                              *)
(***************************************************************************)
MaxPages == 3

\* pixel sizes the renderer returns (1275 x 1650 is US Letter at 150 dpi)
PixelSizes == { <<1275, 1650>>, <<1000, 707>> }

DpiValues == { 72, 150 }

\* the resolutions of the runs of a single driver: the ends of the range the
\* front-end offers (app.rs, min="72" max="600") and values between
AllDpiValues == { 72, 96, 150, 300, 600 }

\* what rendering and encoding one source page gives: its pixel size, and whether
\* the buffer and the JPEG encoder accepted it
PageOutcomes ==
    { [ok |-> TRUE, w |-> s[1], h |-> s[2]] : s \in PixelSizes }
        \cup { [ok |-> FALSE, w |-> 0, h |-> 0] }

InputInit(max, dpis) ==
    /\ parse_ok \in BOOLEAN
    /\ dpi \in dpis
    /\ save_ok \in BOOLEAN
    /\ \E n \in 0 .. max : pages \in [1 .. n -> PageOutcomes]
    /\ ~parse_ok => pages = <<>>       \* an input that does not parse has no pages

page_count == Len(pages)

\* the JPEG bytes of source page page_index: an opaque payload, one per source page
JpegOf(page_index) == [jpeg_of |-> page_index]

Ok(v) == [tag |-> "Ok", val |-> v]
Err(stage) == [tag |-> "Err", stage |-> stage]
None == [tag |-> "None"]

\* process_page(page, page_index, ..), lines 195-250: Ok((page_index, jpeg_data, width, height))
\* or the error of the image buffer or of the encoder
process_page(page_index) ==
    LET page == pages[page_index + 1]
    IN  IF page.ok THEN Ok(<<page_index, JpegOf(page_index), page.w, page.h>>)
        ELSE Err("page")

-----------------------------------------------------------------------------
(***************************************************************************)
(* lopdf::Document as the drivers use it: with_version, new_object_id,     *)
(* add_object, objects.insert, objects.get_mut, trailer.set.               *)
(***************************************************************************)
NewDocument == [max_id |-> 0, objects |-> <<>>, trailer |-> <<>>]

\* doc.new_object_id(): the id handed out is the max_id of the result
NewObjectId(doc) == [doc EXCEPT !.max_id = @ + 1]

\* doc.objects.insert(id, object)
Insert(doc, id, object) == [doc EXCEPT !.objects = (id :> object) @@ @]

\* doc.add_object(object): the id handed out is the max_id of the result
AddObject(doc, object) ==
    LET d == NewObjectId(doc) IN Insert(d, d.max_id, object)

Dictionary(dict) == [kind |-> "Dictionary", dict |-> dict]
Stream(dict, content) == [kind |-> "Stream", dict |-> dict, content |-> content]

\* dict.set(key, value)
DictSet(dict, key, value) == (key :> value) @@ dict

\* one image name for every page
ImNameShared(page_num) == <<"Im", 0>>

\* format!("Im{}", page_num)
ImName(page_num) == <<"Im", page_num>>

\* the pixel size taken as the size in points, dpi left out
PagePointsAt72(img, d) == F32FromInt(img)

\* (img / dpi as f32) * 72.0
PagePoints(img, d) == F32Mul(F32DivInt(img, d), F32FromInt(72))

-----------------------------------------------------------------------------
(***************************************************************************)
(* rasterize_pdf, lib.rs lines 15-193 (batch driver).                      *)
(***************************************************************************)
\* the sort left out
SortByKeyMissing(s) == s

RECURSIVE SortByKey(_)
\* image_data.sort_by_key(|(idx, _, _, _)| *idx): insertion of the head into the
\* sorted tail (the keys of image_data are distinct, so stability plays no part)
SortByKey(s) ==
    IF s = <<>> THEN <<>>
    ELSE LET rest == SortByKey(Tail(s))
             x    == Head(s)
             lt   == SelectSeq(rest, LAMBDA y : y[1] < x[1])
             ge   == SelectSeq(rest, LAMBDA y : y[1] >= x[1])
         IN  lt \o <<x>> \o ge

\* the page node allocated by add_object after its three dependents, not reserved first
BatchAddPageIdLast(doc, page_num, entry, d) ==
    LET jpeg_bytes   == entry[2]
        img_w        == entry[3]
        img_h        == entry[4]
        page_width   == PagePoints(img_w, d)
        page_height  == PagePoints(img_h, d)
        d2           == AddObject(doc, Stream(
                            [Type |-> "XObject", Subtype |-> "Image",
                             Width |-> img_w, Height |-> img_h,
                             ColorSpace |-> "DeviceRGB", BitsPerComponent |-> 8,
                             Filter |-> "DCTDecode"],
                            jpeg_bytes))
        image_id     == d2.max_id
        d3           == AddObject(d2, Stream(<<>>,
                            [cm |-> <<page_width, page_height>>, Do |-> ImName(page_num)]))
        content_id   == d3.max_id
        xobject_dict == DictSet(<<>>, ImName(page_num), image_id)
        d4           == AddObject(d3, Dictionary(DictSet(<<>>, "XObject", xobject_dict)))
        resources_id == d4.max_id
        page_dict    == [Type |-> "Page",
                         MediaBox |-> <<F32Zero, F32Zero, page_width, page_height>>,
                         Contents |-> content_id, Resources |-> resources_id]
    IN  AddObject(d4, Dictionary(page_dict))

\* lines 74-133: the body of the assembly loop for image_data[page_num]
BatchAddPage(doc, page_num, entry, d) ==
    LET jpeg_bytes   == entry[2]
        img_w        == entry[3]
        img_h        == entry[4]
        page_width   == PagePoints(img_w, d)
        page_height  == PagePoints(img_h, d)
        d1           == NewObjectId(doc)
        page_id      == d1.max_id
        d2           == AddObject(d1, Stream(
                            [Type |-> "XObject", Subtype |-> "Image",
                             Width |-> img_w, Height |-> img_h,
                             ColorSpace |-> "DeviceRGB", BitsPerComponent |-> 8,
                             Filter |-> "DCTDecode"],
                            jpeg_bytes))
        image_id     == d2.max_id
        d3           == AddObject(d2, Stream(<<>>,
                            [cm |-> <<page_width, page_height>>, Do |-> ImName(page_num)]))
        content_id   == d3.max_id
        xobject_dict == DictSet(<<>>, ImName(page_num), image_id)
        d4           == AddObject(d3, Dictionary(DictSet(<<>>, "XObject", xobject_dict)))
        resources_id == d4.max_id
        page_dict    == [Type |-> "Page",
                         MediaBox |-> <<F32Zero, F32Zero, page_width, page_height>>,
                         Contents |-> content_id, Resources |-> resources_id]
    IN  Insert(d4, page_id, Dictionary(page_dict))

\* a stride of three objects per page
BatchPageIdsStride3(image_data) == [i \in 1 .. Len(image_data) |-> 1 + (i - 1) * 3]

\* lines 136-139: page_ids
BatchPageIds(image_data) == [i \in 1 .. Len(image_data) |-> 1 + (i - 1) * 4]

\* the backfill stopping one entry short of the end of page_ids
BatchSetParentsButLast(doc, page_ids, pages_id) ==
    [doc EXCEPT !.objects =
        [id \in DOMAIN @ |->
            IF (\E i \in DOMAIN page_ids : i < Len(page_ids) /\ page_ids[i] = id)
               /\ @[id].kind = "Dictionary"
            THEN Dictionary(DictSet(@[id].dict, "Parent", pages_id))
            ELSE @[id]]]

\* lines 136-139, as a data flow: each entry of page_ids is the value of the
\* expression (1 + i * 4); the page_id of line 81 is a local of the loop body, used
\* for the insert of line 133 and out of scope when page_ids is built
BatchPageIdOrigins(image_data) ==
    [i \in 1 .. Len(image_data) |->
        [id |-> BatchPageIds(image_data)[i], origin |-> "formula"]]

\* lines 159-165: Parent is set on every page_ids entry that is in the object table
\* and is a dictionary
BatchSetParents(doc, page_ids, pages_id) ==
    [doc EXCEPT !.objects =
        [id \in DOMAIN @ |->
            IF (\E i \in DOMAIN page_ids : page_ids[i] = id) /\ @[id].kind = "Dictionary"
            THEN Dictionary(DictSet(@[id].dict, "Parent", pages_id))
            ELSE @[id]]]

\* lines 135-179: page tree, Parent backfill, catalog, trailer
BatchFinish(doc, image_data) ==
    LET page_ids   == BatchPageIds(image_data)
        d1         == NewObjectId(doc)
        pages_id   == d1.max_id
        d2         == Insert(d1, pages_id, Dictionary(
                          [Type |-> "Pages", Count |-> Len(image_data), Kids |-> page_ids]))
        d3         == BatchSetParents(d2, page_ids, pages_id)
        d4         == NewObjectId(d3)
        catalog_id == d4.max_id
        d5         == Insert(d4, catalog_id, Dictionary(
                          [Type |-> "Catalog", Pages |-> pages_id]))
    IN  [d5 EXCEPT !.trailer = DictSet(@, "Root", catalog_id)]

\* lines 16-38: Pdf::new(..)?, page_count, the render settings
BatchParse ==
    /\ b_pc = "parse"
    /\ IF parse_ok
       THEN /\ b_pc' = "render"
            /\ b_pending' = 0 .. page_count - 1
            /\ UNCHANGED b_result
       ELSE /\ b_pc' = "returned"
            /\ b_result' = Err("parse")
            /\ UNCHANGED b_pending
    /\ UNCHANGED <<b_collected, b_image_data, b_page_num, b_doc, not_batch>>

\* line 47: the worker of page_index completes.  The workers of par_iter complete in
\* any order; b_collected keeps that order.
BatchWorker(page_index) ==
    /\ b_pc = "render"
    /\ page_index \in b_pending
    /\ b_pending' = b_pending \ {page_index}
    /\ b_collected' = Append(b_collected, process_page(page_index))
    /\ UNCHANGED <<b_pc, b_image_data, b_page_num, b_doc, b_result, not_batch>>

Failed(results) == \E i \in DOMAIN results : results[i].tag = "Err"

\* collect() over the pages that converted only: a failed page is skipped
BatchCollectSkipping ==
    /\ b_pc = "render"
    /\ b_pending = {}
    /\ b_pc' = "assemble"
    /\ b_image_data' = SortByKey(
           LET oks == SelectSeq(b_collected, LAMBDA r : r.tag = "Ok")
           IN  [i \in DOMAIN oks |-> oks[i].val])
    /\ b_doc' = NewDocument
    /\ UNCHANGED <<b_result, b_pending, b_collected, b_page_num, not_batch>>

\* lines 48-71: collect() into Result<Vec<_>>, `image_data?`, the sort, the new document.
\* collect() returns once every worker is done, or early with an error a worker returned.
BatchCollect ==
    /\ b_pc = "render"
    /\ b_pending = {} \/ Failed(b_collected)
    /\ IF Failed(b_collected)
       THEN /\ b_pc' = "returned"
            /\ b_result' = Err("page")
            /\ UNCHANGED <<b_image_data, b_doc>>
       ELSE /\ b_pc' = "assemble"
            /\ b_image_data' = SortByKey([i \in DOMAIN b_collected |-> b_collected[i].val])
            /\ b_doc' = NewDocument
            /\ UNCHANGED b_result
    /\ UNCHANGED <<b_pending, b_collected, b_page_num, not_batch>>

\* lines 74-133: one iteration of the assembly loop
BatchAssemblePage ==
    /\ b_pc = "assemble"
    /\ b_page_num < Len(b_image_data)
    /\ b_doc' = BatchAddPage(b_doc, b_page_num, b_image_data[b_page_num + 1], dpi)
    /\ b_page_num' = b_page_num + 1
    /\ UNCHANGED <<b_pc, b_pending, b_collected, b_image_data, b_result, not_batch>>

\* lines 135-179, after the loop
BatchAssembleFinish ==
    /\ b_pc = "assemble"
    /\ b_page_num = Len(b_image_data)
    /\ b_doc' = BatchFinish(b_doc, b_image_data)
    /\ b_pc' = "save"
    /\ UNCHANGED <<b_pending, b_collected, b_image_data, b_page_num, b_result, not_batch>>

\* lines 187-192: doc.save_to(&mut output)?; Ok(output).  The output bytes are the
\* serialisation of doc, modelled by doc itself.
BatchSave ==
    /\ b_pc = "save"
    /\ b_pc' = "returned"
    /\ b_result' = IF save_ok THEN Ok(b_doc) ELSE Err("save")
    /\ UNCHANGED <<b_pending, b_collected, b_image_data, b_page_num, b_doc, not_batch>>

BatchInit ==
    /\ b_pc = "parse"
    /\ b_pending = {}
    /\ b_collected = <<>>
    /\ b_image_data = <<>>
    /\ b_page_num = 0
    /\ b_doc = NewDocument
    /\ b_result = None


-----------------------------------------------------------------------------
(***************************************************************************)
(* rasterize_pdf_with_progress, lib.rs lines 254-449 (cooperative driver). *)
(* A step runs from one TimeoutFuture .await to the next; c_waiting holds  *)
(* while the future is pending and the host runs.                          *)
(***************************************************************************)
\* the messages of progress_callback: the stage of the text and the numbers in it
LoadedEvent(n)          == [stage |-> "loaded",    i |-> n, n |-> n]      \* line 269
RenderingEvent(i, n)    == [stage |-> "rendering", i |-> i, n |-> n]      \* lines 289-293
BuildingStartEvent(n)   == [stage |-> "building",  i |-> 0, n |-> n]      \* line 304
SavingEvent(n)          == [stage |-> "saving",    i |-> n, n |-> n]      \* line 434
DoneEvent(n)            == [stage |-> "done",      i |-> n, n |-> n]      \* line 446

\* lines 315-319: "PDF作成中... ({}/{})" with page_num + 1 and image_data.len()
BuildingEvent(page_num, n) == [stage |-> "building", i |-> page_num + 1, n |-> n]

\* a report and an await at the head of every sixth iteration
ReportsAtEverySixth(page_num) == page_num % 6 = 0

\* line 314: the assembly loop reports and yields on these iterations
ReportsAt(page_num) == page_num % 5 = 0

\* width and height of the image taken in the other order
CoopAddPageSwapped(doc, page_num, entry, d) ==
    BatchAddPage(doc, page_num, <<entry[1], entry[2], entry[4], entry[3]>>, d)

\* lines 324-381: the body of the assembly loop for image_data[page_num]
CoopAddPage(doc, page_num, entry, d) ==
    LET jpeg_bytes   == entry[2]
        img_w        == entry[3]
        img_h        == entry[4]
        page_width   == PagePoints(img_w, d)
        page_height  == PagePoints(img_h, d)
        d1           == NewObjectId(doc)
        page_id      == d1.max_id
        d2           == AddObject(d1, Stream(
                            [Type |-> "XObject", Subtype |-> "Image",
                             Width |-> img_w, Height |-> img_h,
                             ColorSpace |-> "DeviceRGB", BitsPerComponent |-> 8,
                             Filter |-> "DCTDecode"],
                            jpeg_bytes))
        image_id     == d2.max_id
        d3           == AddObject(d2, Stream(<<>>,
                            [cm |-> <<page_width, page_height>>, Do |-> ImName(page_num)]))
        content_id   == d3.max_id
        xobject_dict == DictSet(<<>>, ImName(page_num), image_id)
        d4           == AddObject(d3, Dictionary(DictSet(<<>>, "XObject", xobject_dict)))
        resources_id == d4.max_id
        page_dict    == [Type |-> "Page",
                         MediaBox |-> <<F32Zero, F32Zero, page_width, page_height>>,
                         Contents |-> content_id, Resources |-> resources_id]
    IN  Insert(d4, page_id, Dictionary(page_dict))

\* lines 385-389: page_ids
CoopPageIds(image_data) == [i \in 1 .. Len(image_data) |-> 1 + (i - 1) * 4]

\* lines 385-389, as a data flow: the entries are the values of (1 + i * 4), the
\* page_id of the loop body is not kept
CoopPageIdOrigins(image_data) ==
    [i \in 1 .. Len(image_data) |->
        [id |-> CoopPageIds(image_data)[i], origin |-> "formula"]]

\* lines 412-418: the Parent backfill
CoopSetParents(doc, page_ids, pages_id) ==
    [doc EXCEPT !.objects =
        [id \in DOMAIN @ |->
            IF (\E i \in DOMAIN page_ids : page_ids[i] = id) /\ @[id].kind = "Dictionary"
            THEN Dictionary(DictSet(@[id].dict, "Parent", pages_id))
            ELSE @[id]]]

\* lines 384-432: page tree, Parent backfill, catalog, trailer
CoopFinish(doc, image_data) ==
    LET page_ids   == CoopPageIds(image_data)
        d1         == NewObjectId(doc)
        pages_id   == d1.max_id
        d2         == Insert(d1, pages_id, Dictionary(
                          [Type |-> "Pages", Count |-> Len(image_data), Kids |-> page_ids]))
        d3         == CoopSetParents(d2, page_ids, pages_id)
        d4         == NewObjectId(d3)
        catalog_id == d4.max_id
        d5         == Insert(d4, catalog_id, Dictionary(
                          [Type |-> "Catalog", Pages |-> pages_id]))
    IN  [d5 EXCEPT !.trailer = DictSet(@, "Root", catalog_id)]

\* the last message sent before the result of doc.save_to is looked at
SaveEventsBeforeResult(saved, n) == <<DoneEvent(n)>>

\* lines 441-448: what the sink receives once doc.save_to has returned
SaveEvents(saved, n) == IF saved THEN <<DoneEvent(n)>> ELSE <<>>

\* lines 264-272: Pdf::new(..)?, the page-count message, the first await
CoopParse ==
    /\ c_pc = "parse"
    /\ IF parse_ok
       THEN /\ c_events' = Append(c_events, LoadedEvent(page_count))
            /\ c_pc' = "render"
            /\ c_waiting' = TRUE
            /\ UNCHANGED c_result
       ELSE /\ c_pc' = "returned"
            /\ c_result' = Err("parse")
            /\ UNCHANGED <<c_events, c_waiting>>
    /\ UNCHANGED <<c_image_data, c_page_num, c_doc, c_since_resume, not_coop>>

\* the host's timer fires and the future of the pending await completes
CoopResume ==
    /\ c_waiting
    /\ c_waiting' = FALSE
    /\ c_since_resume' = 0
    /\ UNCHANGED <<c_pc, c_image_data, c_page_num, c_doc, c_events, c_result, not_coop>>

\* lines 288-301: one iteration of the render loop
CoopRenderPage ==
    /\ c_pc = "render" /\ ~c_waiting
    /\ c_page_num < page_count
    /\ c_events' = Append(c_events, RenderingEvent(c_page_num + 1, page_count))
    /\ LET result == process_page(c_page_num)
       IN  IF result.tag = "Ok"
           THEN /\ c_image_data' = Append(c_image_data, result.val)
                /\ c_page_num' = c_page_num + 1
                /\ c_waiting' = TRUE
                /\ UNCHANGED <<c_pc, c_result>>
           ELSE /\ c_pc' = "returned"
                /\ c_result' = result
                /\ UNCHANGED <<c_image_data, c_page_num, c_waiting>>
    /\ c_since_resume' = c_since_resume + 1
    /\ UNCHANGED <<c_doc, not_coop>>

\* lines 303-310: after the render loop
CoopRenderDone ==
    /\ c_pc = "render" /\ ~c_waiting
    /\ c_page_num = page_count
    /\ c_events' = Append(c_events, BuildingStartEvent(Len(c_image_data)))
    /\ c_waiting' = TRUE
    /\ c_pc' = "assemble"
    /\ c_doc' = NewDocument
    /\ c_page_num' = 0
    /\ UNCHANGED <<c_image_data, c_result, c_since_resume, not_coop>>

\* lines 314-322: the report and the await at the head of every fifth iteration
CoopBuildReport ==
    /\ c_pc = "assemble" /\ ~c_waiting
    /\ c_page_num < Len(c_image_data)
    /\ ReportsAt(c_page_num)
    /\ c_events' = Append(c_events, BuildingEvent(c_page_num, Len(c_image_data)))
    /\ c_waiting' = TRUE
    /\ c_pc' = "add_page"
    /\ UNCHANGED <<c_image_data, c_page_num, c_doc, c_result, c_since_resume, not_coop>>

\* lines 324-382: the rest of the iteration
CoopAssemblePage ==
    /\ ~c_waiting
    /\ c_pc = "add_page" \/ (c_pc = "assemble" /\ ~ReportsAt(c_page_num))
    /\ c_page_num < Len(c_image_data)
    /\ c_doc' = CoopAddPage(c_doc, c_page_num, c_image_data[c_page_num + 1], dpi)
    /\ c_page_num' = c_page_num + 1
    /\ c_pc' = "assemble"
    /\ c_since_resume' = c_since_resume + 1
    /\ UNCHANGED <<c_waiting, c_image_data, c_events, c_result, not_coop>>

\* lines 384-438: after the assembly loop, up to the await before saving
CoopAssembleFinish ==
    /\ c_pc = "assemble" /\ ~c_waiting
    /\ c_page_num = Len(c_image_data)
    /\ c_doc' = CoopFinish(c_doc, c_image_data)
    /\ c_events' = Append(c_events, SavingEvent(Len(c_image_data)))
    /\ c_waiting' = TRUE
    /\ c_pc' = "save"
    /\ UNCHANGED <<c_image_data, c_page_num, c_result, c_since_resume, not_coop>>

\* lines 440-448: doc.save_to(&mut output)?, the last message, Ok(output)
CoopSave ==
    /\ c_pc = "save" /\ ~c_waiting
    /\ c_events' = c_events \o SaveEvents(save_ok, Len(c_image_data))
    /\ c_result' = IF save_ok THEN Ok(c_doc) ELSE Err("save")
    /\ c_pc' = "returned"
    /\ UNCHANGED <<c_waiting, c_image_data, c_page_num, c_doc, c_since_resume, not_coop>>

CoopInit ==
    /\ c_pc = "parse"
    /\ c_waiting = FALSE
    /\ c_image_data = <<>>
    /\ c_page_num = 0
    /\ c_doc = NewDocument
    /\ c_events = <<>>
    /\ c_result = None
    /\ c_since_resume = 0

\* the driver is not called
CoopIdle ==
    /\ c_pc = "idle"
    /\ c_waiting = FALSE
    /\ c_image_data = <<>>
    /\ c_page_num = 0
    /\ c_doc = NewDocument
    /\ c_events = <<>>
    /\ c_result = None
    /\ c_since_resume = 0

BatchIdle ==
    /\ b_pc = "idle"
    /\ b_pending = {}
    /\ b_collected = <<>>
    /\ b_image_data = <<>>
    /\ b_page_num = 0
    /\ b_doc = NewDocument
    /\ b_result = None

-----------------------------------------------------------------------------
(***************************************************************************)
(* rasterize_pdf, main.rs lines 45-205 (command line variant): the pages   *)
(* are written to JPEG files of a temporary directory and placed on the    *)
(* pages of a printpdf document whose sizes are in millimetres.            *)
(***************************************************************************)
\* the file-system operations of main.rs that can fail (lines 49, 59, 99, 118/142, 161, 196)
IoFailures == { "none", "read", "tempdir", "create", "open", "read_jpeg", "output" }

\* the f32 constant 25.4
F32MmPerInch == [m |-> 13316915, e |-> -19]

\* (img / dpi as f32) * 25.4
PageMm(img, d) == F32Mul(F32DivInt(img, d), F32MmPerInch)

\* image::open(&image_files[k]): the size of the JPEG written for that page
ImageWidth(file)  == pages[file + 1].w
ImageHeight(file) == pages[file + 1].h

\* lines 142-191: the page the image goes on, and the image placed on its layer
MainPlace(doc_pages, page_index, file, d) ==
    LET img_w == ImageWidth(file)
        img_h == ImageHeight(file)
        image_xobject == [width |-> img_w, height |-> img_h, image_data |-> JpegOf(file),
                          image_filter |-> "DCT", dpi |-> d]
        with_page == IF page_index > 0
                     THEN Append(doc_pages, [width  |-> PageMm(img_w, d),
                                             height |-> PageMm(img_h, d),
                                             layer  |-> <<>>])
                     ELSE doc_pages
    IN  [with_page EXCEPT ![Len(with_page)].layer = Append(@, image_xobject)]

\* lines 49-75: read the file, parse it, make the temporary directory
MainParse ==
    /\ m_pc = "parse"
    /\ IF io_fail = "read" THEN m_result' = Err("io") /\ m_pc' = "returned"
       ELSE IF ~parse_ok THEN m_result' = Err("parse") /\ m_pc' = "returned"
       ELSE IF io_fail = "tempdir" THEN m_result' = Err("io") /\ m_pc' = "returned"
       ELSE m_pc' = "convert" /\ UNCHANGED m_result
    /\ UNCHANGED <<io_fail, m_image_files, m_page_index, m_doc_pages, not_main>>

\* lines 78-112: one iteration of the conversion loop
MainConvertPage ==
    /\ m_pc = "convert"
    /\ m_page_index < page_count
    /\ IF ~pages[m_page_index + 1].ok
       THEN m_result' = Err("page") /\ m_pc' = "returned"
                /\ UNCHANGED <<m_image_files, m_page_index>>
       ELSE IF io_fail = "create"
       THEN m_result' = Err("io") /\ m_pc' = "returned"
                /\ UNCHANGED <<m_image_files, m_page_index>>
       ELSE /\ m_image_files' = Append(m_image_files, m_page_index)
            /\ m_page_index' = m_page_index + 1
            /\ UNCHANGED <<m_pc, m_result>>
    /\ UNCHANGED <<io_fail, m_doc_pages, not_main>>

\* lines 114-132: image_files[0] sizes the document's first page.  Indexing an empty
\* Vec panics.
MainFirstImage ==
    /\ m_pc = "convert"
    /\ m_page_index = page_count
    /\ IF Len(m_image_files) = 0
       THEN m_result' = [tag |-> "Panic"] /\ m_pc' = "returned"
                /\ UNCHANGED <<m_doc_pages, m_page_index>>
       ELSE IF io_fail = "open"
       THEN m_result' = Err("io") /\ m_pc' = "returned"
                /\ UNCHANGED <<m_doc_pages, m_page_index>>
       ELSE /\ m_doc_pages' = << [width  |-> PageMm(ImageWidth(m_image_files[1]), dpi),
                                  height |-> PageMm(ImageHeight(m_image_files[1]), dpi),
                                  layer  |-> <<>>] >>
            /\ m_page_index' = 0
            /\ m_pc' = "place"
            /\ UNCHANGED m_result
    /\ UNCHANGED <<io_fail, m_image_files, not_main>>

\* lines 135-192: one iteration of the placement loop
MainPlacePage ==
    /\ m_pc = "place"
    /\ m_page_index < Len(m_image_files)
    /\ IF io_fail = "read_jpeg"
       THEN m_result' = Err("io") /\ m_pc' = "returned"
                /\ UNCHANGED <<m_doc_pages, m_page_index>>
       ELSE /\ m_doc_pages' = MainPlace(m_doc_pages, m_page_index,
                                        m_image_files[m_page_index + 1], dpi)
            /\ m_page_index' = m_page_index + 1
            /\ UNCHANGED <<m_pc, m_result>>
    /\ UNCHANGED <<io_fail, m_image_files, not_main>>

\* lines 194-204: create the output file and save the document
MainSave ==
    /\ m_pc = "place"
    /\ m_page_index = Len(m_image_files)
    /\ m_pc' = "returned"
    /\ m_result' = IF io_fail = "output" THEN Err("io")
                   ELSE IF ~save_ok THEN Err("save")
                   ELSE Ok(m_doc_pages)
    /\ UNCHANGED <<io_fail, m_image_files, m_page_index, m_doc_pages, not_main>>

MainInit ==
    /\ io_fail \in IoFailures
    /\ m_pc = "parse"
    /\ m_image_files = <<>>
    /\ m_page_index = 0
    /\ m_doc_pages = <<>>
    /\ m_result = None

MainIdle ==
    /\ io_fail = "none"
    /\ m_pc = "idle"
    /\ m_image_files = <<>>
    /\ m_page_index = 0
    /\ m_doc_pages = <<>>
    /\ m_result = None

-----------------------------------------------------------------------------
(***************************************************************************)
(* App of app.rs: Component::update, lines 43-109, with the senders of its *)
(* messages: the user through the callbacks of view, the file reader, and  *)
(* the future that ProcessPdf hands to spawn_local.  A message is handled  *)
(* in the step that sends it: yew runs update before any other event.      *)
(***************************************************************************)
Some(v) == [tag |-> "Some", val |-> v]

\* the files the user can pick: the name as base and suffix, and what
\* rasterize_pdf_with_progress makes of the bytes
UserFiles ==
    { [name |-> <<"a", ".pdf">>, content |-> "pdf"],
      [name |-> <<"b", ".pdf">>, content |-> "pdf"],
      [name |-> <<"c", ".pdf">>, content |-> "bad_page"],
      [name |-> <<"d", "">>,     content |-> "not_pdf"] }

\* the bytes read_as_bytes delivers for a file
DataOf(file) == [bytes_of |-> file.name[1], content |-> file.content]

\* the values the user types into the dpi field
AppDpiValues == {72, 300}

\* the stages of the texts rasterize_pdf_with_progress hands to its callback before
\* it returns: none if the bytes do not parse, up to the page that fails, or all
TaskMessages(data) ==
    CASE data.content = "pdf"      -> <<"loaded", "rendering", "building", "saving", "done">>
      [] data.content = "bad_page" -> <<"loaded", "rendering">>
      [] OTHER                     -> <<>>

\* lines 77-84: the Result of the call, its error mapped by format!("エラー: {}", e)
TaskResult(data, d) ==
    IF data.content = "pdf"
    THEN Ok([rasterized |-> data.bytes_of, dpi |-> d])
    ELSE Err(<<"エラー: ", IF data.content = "bad_page" THEN "page" ELSE "parse">>)

\* a sequence without its t-th element
Remove(s, t) == [i \in 1 .. Len(s) - 1 |-> IF i < t THEN s[i] ELSE s[i + 1]]

\* lines 31-41: create
AppCreate ==
    /\ a_file = None
    /\ a_processing = FALSE
    /\ a_result = None
    /\ a_file_reader = None
    /\ a_dpi = 72
    /\ a_file_name = None
    /\ a_progress_message = None
    /\ a_tasks = <<>>

\* lines 112-125 and 45-57: the user closes the file dialog; files is what was picked.
\* The reader that was stored is dropped, which aborts its read.
AppFileSelected(files) ==
    /\ IF Len(files) > 0
       THEN /\ a_file_name' = Some(files[1].name)
            /\ a_file_reader' = Some([file |-> files[1], pending |-> TRUE])
       ELSE UNCHANGED <<a_file_name, a_file_reader>>
    /\ UNCHANGED <<a_file, a_processing, a_result, a_dpi, a_progress_message, a_tasks, not_app>>

\* lines 49-53 and 58-64: the read ends with Ok(data), FileLoaded(data) is handled
AppFileLoaded ==
    /\ a_file_reader.tag = "Some" /\ a_file_reader.val.pending
    /\ a_file_reader' = Some([a_file_reader.val EXCEPT !.pending = FALSE])
    /\ a_file' = Some(DataOf(a_file_reader.val.file))
    /\ a_result' = None
    /\ a_progress_message' = None
    /\ UNCHANGED <<a_processing, a_dpi, a_file_name, a_tasks, not_app>>

\* lines 49-53: the read ends with an error, no message is sent
AppFileReadFailed ==
    /\ a_file_reader.tag = "Some" /\ a_file_reader.val.pending
    /\ a_file_reader' = Some([a_file_reader.val EXCEPT !.pending = FALSE])
    /\ UNCHANGED <<a_file, a_processing, a_result, a_dpi, a_file_name, a_progress_message,
                   a_tasks, not_app>>

\* line 215: the button that sends ProcessPdf takes clicks
ProcessEnabled == ~(a_file = None \/ a_processing)

\* ProcessPdf that leaves the result of the conversion before in place
AppProcessPdfKeepsResult ==
    /\ ProcessEnabled
    /\ IF a_file.tag = "Some"
       THEN /\ a_processing' = TRUE
            /\ a_progress_message' = Some("start")
            /\ a_tasks' = Append(a_tasks, [data |-> a_file.val, dpi |-> a_dpi, sent |-> 0])
       ELSE UNCHANGED <<a_processing, a_progress_message, a_tasks>>
    /\ UNCHANGED <<a_file, a_result, a_file_reader, a_dpi, a_file_name, not_app>>

\* lines 127-133 and 65-89: a click on the button, ProcessPdf(dpi) is handled
AppProcessPdf ==
    /\ ProcessEnabled
    /\ IF a_file.tag = "Some"
       THEN /\ a_processing' = TRUE
            /\ a_result' = None
            /\ a_progress_message' = Some("start")
            /\ a_tasks' = Append(a_tasks, [data |-> a_file.val, dpi |-> a_dpi, sent |-> 0])
       ELSE UNCHANGED <<a_processing, a_result, a_progress_message, a_tasks>>
    /\ UNCHANGED <<a_file, a_file_reader, a_dpi, a_file_name, not_app>>

\* lines 135-143 and 100-103: the dpi field changes to a number
AppSetDpi(value) ==
    /\ a_dpi' = value
    /\ UNCHANGED <<a_file, a_processing, a_result, a_file_reader, a_file_name,
                   a_progress_message, a_tasks, not_app>>

\* lines 78-81 and 104-107: task t calls its callback, UpdateProgress is handled
AppUpdateProgress(t) ==
    /\ t \in DOMAIN a_tasks
    /\ a_tasks[t].sent < Len(TaskMessages(a_tasks[t].data))
    /\ a_progress_message' = Some(TaskMessages(a_tasks[t].data)[a_tasks[t].sent + 1])
    /\ a_tasks' = [a_tasks EXCEPT ![t].sent = @ + 1]
    /\ UNCHANGED <<a_file, a_processing, a_result, a_file_reader, a_dpi, a_file_name, not_app>>

\* lines 83-86 and 90-99: task t is over, PdfProcessed(result) is handled
AppPdfProcessed(t) ==
    /\ t \in DOMAIN a_tasks
    /\ a_tasks[t].sent = Len(TaskMessages(a_tasks[t].data))
    /\ a_processing' = FALSE
    /\ a_progress_message' = None
    /\ a_result' = Some(TaskResult(a_tasks[t].data, a_tasks[t].dpi))
    /\ a_tasks' = Remove(a_tasks, t)
    /\ UNCHANGED <<a_file, a_file_reader, a_dpi, a_file_name, not_app>>

\* lines 145-151: the name download_pdf is called with
DownloadName ==
    IF a_file_name.tag = "Some" /\ a_file_name.val[2] = ".pdf"
    THEN <<a_file_name.val[1], "_rasterized.pdf">>
    ELSE <<"output.pdf">>

\* lines 145-166: the download button is part of the page
Downloadable == a_result.tag = "Some" /\ a_result.val.tag = "Ok"

-----------------------------------------------------------------------------
(***************************************************************************)
(* Specifications.                                                         *)
(*   Spec       both library drivers on the same input                     *)
(*   SpecCoop   the cooperative driver alone, on longer documents          *)
(*   SpecOne    one of the three drivers, chosen at the start              *)
(*   SpecPixel  the un-premultiply step on one chunk                       *)
(***************************************************************************)
MaxCoopPages == 6

Init ==
    /\ InputInit(MaxPages, DpiValues) /\ PixelIdle /\ BatchInit /\ CoopInit /\ MainIdle
    /\ AppCreate

Next ==
    \/ BatchParse
    \/ \E page_index \in 0 .. page_count - 1 : BatchWorker(page_index)
    \/ BatchCollect
    \/ BatchAssemblePage
    \/ BatchAssembleFinish
    \/ BatchSave
    \/ CoopParse
    \/ CoopResume
    \/ CoopRenderPage
    \/ CoopRenderDone
    \/ CoopBuildReport
    \/ CoopAssemblePage
    \/ CoopAssembleFinish
    \/ CoopSave

Spec == Init /\ [][Next]_vars

InitCoop ==
    /\ InputInit(MaxCoopPages, DpiValues) /\ PixelIdle /\ BatchIdle /\ CoopInit /\ MainIdle
    /\ AppCreate

NextCoop ==
    \/ CoopParse
    \/ CoopResume
    \/ CoopRenderPage
    \/ CoopRenderDone
    \/ CoopBuildReport
    \/ CoopAssemblePage
    \/ CoopAssembleFinish
    \/ CoopSave

SpecCoop == InitCoop /\ [][NextCoop]_vars

\* TimeoutFuture is a timer of the host's event loop: a pending timer fires
SpecCoopFair == InitCoop /\ [][NextCoop]_vars /\ WF_vars(CoopResume)

InitOne ==
    /\ InputInit(MaxPages, AllDpiValues)
    /\ PixelIdle
    /\ \/ BatchInit /\ CoopIdle /\ MainIdle
       \/ BatchIdle /\ CoopInit /\ MainIdle
       \/ BatchIdle /\ CoopIdle /\ MainInit
    /\ AppCreate

NextMain ==
    \/ MainParse
    \/ MainConvertPage
    \/ MainFirstImage
    \/ MainPlacePage
    \/ MainSave

NextOne == Next \/ NextMain

SpecOne == InitOne /\ [][NextOne]_vars

InitPixel ==
    /\ rgba_data \in Chunks
    /\ rgb_data = <<>>
    /\ px_pc = "chunk"
    /\ parse_ok = TRUE /\ pages = <<>> /\ dpi = 72 /\ save_ok = TRUE
    /\ BatchIdle /\ CoopIdle /\ MainIdle
    /\ AppCreate

NextPixel == ConvertChunk

SpecPixel == InitPixel /\ [][NextPixel]_vars

\* the front end alone; no conversion of the library model runs beside it
InitApp ==
    /\ parse_ok = TRUE /\ pages = <<>> /\ dpi = 72 /\ save_ok = TRUE
    /\ PixelIdle /\ BatchIdle /\ CoopIdle /\ MainIdle
    /\ AppCreate

NextApp ==
    \/ \E files \in {<<>>} \cup {<<f>> : f \in UserFiles} : AppFileSelected(files)
    \/ AppFileLoaded
    \/ AppFileReadFailed
    \/ AppProcessPdf
    \/ \E value \in AppDpiValues : AppSetDpi(value)
    \/ \E t \in DOMAIN a_tasks : AppUpdateProgress(t)
    \/ \E t \in DOMAIN a_tasks : AppPdfProcessed(t)

SpecApp == InitApp /\ [][NextApp]_vars

-----------------------------------------------------------------------------
(***************************************************************************)
(* Reading an output document.                                             *)
(***************************************************************************)
Catalog(doc)  == doc.objects[doc.trailer.Root].dict
PageTree(doc) == doc.objects[Catalog(doc).Pages].dict

HasPage(doc, id) ==
    /\ id \in DOMAIN doc.objects
    /\ doc.objects[id].kind = "Dictionary"
    /\ "Type" \in DOMAIN doc.objects[id].dict
    /\ doc.objects[id].dict.Type = "Page"

\* the image a page node draws: the name its content stream invokes, looked up in
\* the page's resources
PageImage(doc, id) ==
    LET page      == doc.objects[id].dict
        name      == doc.objects[page.Contents].content.Do
        resources == doc.objects[page.Resources].dict
    IN  doc.objects[resources.XObject[name]]

\* the page node with this id is the one built from source page page_index
BuiltFrom(doc, id, page_index) ==
    /\ HasPage(doc, id)
    /\ PageImage(doc, id).content = JpegOf(page_index)
    /\ PageImage(doc, id).dict.Width = pages[page_index + 1].w
    /\ PageImage(doc, id).dict.Height = pages[page_index + 1].h

PagesInOrder(doc) ==
    /\ PageTree(doc).Count = page_count
    /\ Len(PageTree(doc).Kids) = page_count
    /\ \A k \in 1 .. page_count : BuiltFrom(doc, PageTree(doc).Kids[k], k - 1)

\* per listed page: bounding box, pixel size and payload
PageSummary(doc) ==
    [k \in 1 .. Len(PageTree(doc).Kids) |->
        LET id == PageTree(doc).Kids[k]
        IN  [MediaBox |-> doc.objects[id].dict.MediaBox,
             Width    |-> PageImage(doc, id).dict.Width,
             Height   |-> PageImage(doc, id).dict.Height,
             payload  |-> PageImage(doc, id).content]]

AllPagesOk == \A k \in 1 .. page_count : pages[k].ok

-----------------------------------------------------------------------------
(***************************************************************************)
(* The claims.                                                             *)
(***************************************************************************)

\* C1: a successful conversion of an N-page input by either library driver returns a
\* document whose page tree has Count = N and N Kids, the k-th of which is the page
\* node built from source page k.
C1_PagesInOriginalOrder ==
    /\ b_result.tag = "Ok" => PagesInOrder(b_result.val)
    /\ c_result.tag = "Ok" => PagesInOrder(c_result.val)

C1_Witness ==
    /\ b_result.tag = "Ok" /\ c_result.tag = "Ok"
    /\ page_count = 3
    /\ pages[1].w # pages[2].w

\* C2: whatever the order in which the workers complete, the sequence handed to the
\* assembler is the pages' results in ascending index order, each index once; it is
\* a function of the input alone.
C2_SequencedByIndex ==
    b_pc \in {"assemble", "save"} =>
        /\ Len(b_image_data) = page_count
        /\ \A i \in 1 .. page_count : b_image_data[i][1] = i - 1
        /\ b_image_data = [i \in 1 .. page_count |-> process_page(i - 1).val]

C2_Witness ==
    /\ b_pc = "assemble"
    /\ Len(b_collected) = 3
    /\ b_collected[1].val[1] = 2
    /\ b_collected[2].val[1] = 0

\* C3: every error is terminal.  A driver that returns Ok had no failure at all and
\* returns all N pages; with a parse, page or save failure it returns Err, which
\* carries no output; the page loop of the cooperative driver stops at the first
\* failing page, with every earlier page converted once and none after it tried;
\* no worker of the batch driver runs twice.
C3_ErrorsAreTerminal ==
    /\ \A r \in {b_result, c_result} :
          /\ r.tag = "Ok" =>
                /\ parse_ok /\ AllPagesOk /\ save_ok
                /\ PageTree(r.val).Count = page_count
                /\ Len(PageTree(r.val).Kids) = page_count
          /\ r.tag = "Err" => DOMAIN r = {"tag", "stage"}
    /\ b_pc = "returned" => (b_result.tag = "Err" <=> ~(parse_ok /\ AllPagesOk /\ save_ok))
    /\ c_pc = "returned" => (c_result.tag = "Err" <=> ~(parse_ok /\ AllPagesOk /\ save_ok))
    /\ c_result = Err("page") =>
          /\ ~pages[c_page_num + 1].ok
          /\ \A k \in 1 .. c_page_num : pages[k].ok
          /\ c_image_data = [i \in 1 .. c_page_num |-> process_page(i - 1).val]
          /\ Len(SelectSeq(c_events, LAMBDA ev : ev.stage = "rendering")) = c_page_num + 1
    /\ \A i, j \in DOMAIN b_collected :
          (i # j /\ b_collected[i].tag = "Ok" /\ b_collected[j].tag = "Ok")
              => b_collected[i].val[1] # b_collected[j].val[1]
    /\ Len(b_collected) + Cardinality(b_pending) = (IF b_pc = "parse" THEN 0 ELSE page_count)

C3_Witness ==
    /\ b_result = Err("page") /\ c_result = Err("page")
    /\ page_count = 3
    /\ pages[1].ok /\ ~pages[2].ok /\ pages[3].ok
    /\ Len(b_collected) = 3

\* C4: no conversion ends by panicking: the command line variant, like the library
\* drivers, returns Ok or Err for every input, a source with zero pages included.
C4_NeverPanics ==
    /\ m_result.tag \in {"None", "Ok", "Err"}
    /\ b_result.tag \in {"None", "Ok", "Err"}
    /\ c_result.tag \in {"None", "Ok", "Err"}

\* C5: on the same input and dpi the two library drivers return documents with the
\* same page count, the same page order and, page by page, the same bounding box,
\* pixel size and image payload.
C5_DriversAgree ==
    (b_result.tag = "Ok" /\ c_result.tag = "Ok") =>
        /\ PageTree(b_result.val).Count = PageTree(c_result.val).Count
        /\ PageSummary(b_result.val) = PageSummary(c_result.val)

C5_Witness ==
    /\ b_result.tag = "Ok" /\ c_result.tag = "Ok"
    /\ page_count = 3
    /\ pages[1].w # pages[3].w
    /\ dpi = 150

\* |x - img * num / (d * den)| <= 1 for the f32 x, decided on x truncated to 1/256
WithinOneUnit(x, img, d, num, den) ==
    LET t == F32Trunc(x, 8)
    IN  /\ t * d * den >= 256 * (img * num - d * den)
        /\ (t + 1) * d * den <= 256 * (img * num + d * den)

\* C6: the bounding box of the page of source page k is [0, 0, W/d*u, H/d*u] within
\* one unit, W x H being the pixel size of that same page: u = 72 in the library
\* drivers, u = 25.4 in the command line variant.
C6_PageGeometry ==
    /\ \A r \in {b_result, c_result} :
          r.tag = "Ok" =>
              \A k \in 1 .. Len(PageTree(r.val).Kids) :
                  LET box == r.val.objects[PageTree(r.val).Kids[k]].dict.MediaBox
                  IN  /\ box[1] = F32Zero /\ box[2] = F32Zero
                      /\ WithinOneUnit(box[3], pages[k].w, dpi, 72, 1)
                      /\ WithinOneUnit(box[4], pages[k].h, dpi, 72, 1)
    /\ m_result.tag = "Ok" =>
          /\ Len(m_result.val) = page_count
          /\ \A k \in 1 .. page_count :
                /\ WithinOneUnit(m_result.val[k].width, pages[k].w, dpi, 254, 10)
                /\ WithinOneUnit(m_result.val[k].height, pages[k].h, dpi, 254, 10)

C6_Witness ==
    /\ b_result.tag = "Ok"
    /\ page_count = 3
    /\ dpi = 150
    /\ pages[1].w = 1275 /\ pages[2].h = 707 /\ pages[3].w = 1275
    \* 707 / 150 * 72 = 339.36
    /\ F32Trunc(b_result.val.objects[PageTree(b_result.val).Kids[2]].dict.MediaBox[4], 0)
           = 339
    /\ F32Trunc(b_result.val.objects[PageTree(b_result.val).Kids[2]].dict.MediaBox[4], 8)
           = 339 * 256 + 92

\* C7: a chunk with a = 0 is pushed as (0, 0, 0), whatever r, g and b are.
C7_TransparentIsBlack ==
    (px_pc = "pushed" /\ rgba_data[4] = 0) => rgb_data = <<0, 0, 0>>

C7_Witness ==
    /\ px_pc = "pushed"
    /\ rgba_data = <<200, 55, 72, 0>>
    /\ rgb_data = <<0, 0, 0>>

\* C8: a chunk with a = 255 is pushed with r, g and b unchanged.
C8_OpaqueUnchanged ==
    (px_pc = "pushed" /\ rgba_data[4] = 255) =>
        rgb_data = <<rgba_data[1], rgba_data[2], rgba_data[3]>>

C8_Witness ==
    /\ px_pc = "pushed"
    /\ rgba_data = <<201, 54, 73, 255>>
    /\ rgb_data = <<201, 54, 73>>

\* min(255, round(c * 255 / a)), halves rounded up
RoundedChannel(c, a) ==
    LET q == (2 * c * 255 + a) \div (2 * a) IN IF q > 255 THEN 255 ELSE q

\* C9: for a > 0 every channel c is pushed as min(255, round(c * 255 / a)), rounded
\* to the nearest integer, a value of 0..255.
C9_RoundsToNearest ==
    (px_pc = "pushed" /\ rgba_data[4] > 0) =>
        \A ch \in 1 .. 3 :
            /\ rgb_data[ch] \in U8
            /\ rgb_data[ch] = RoundedChannel(rgba_data[ch], rgba_data[4])

StageRank(stage) ==
    CASE stage = "loaded"    -> 1
      [] stage = "rendering" -> 2
      [] stage = "building"  -> 3
      [] stage = "saving"    -> 4
      [] stage = "done"      -> 5

EventsOf(stage) == SelectSeq(c_events, LAMBDA ev : ev.stage = stage)

\* C10: the messages of the cooperative driver go through the stages in order: the
\* page count first and once, the rendering messages with i = 1, 2, .. up to N, the
\* building messages with increasing i, saving, done; no message of an earlier stage
\* follows one of a later stage; done is sent exactly when Ok is returned.
C10_StagesProgress ==
    /\ \A j \in 1 .. Len(c_events) - 1 :
          StageRank(c_events[j].stage) <= StageRank(c_events[j + 1].stage)
    /\ c_events # <<>> => c_events[1] = LoadedEvent(page_count)
    /\ Len(EventsOf("loaded")) <= 1
    /\ Len(EventsOf("rendering")) <= page_count
    /\ \A j \in DOMAIN EventsOf("rendering") :
          EventsOf("rendering")[j] = RenderingEvent(j, page_count)
    /\ \A j \in 1 .. Len(EventsOf("building")) - 1 :
          EventsOf("building")[j].i < EventsOf("building")[j + 1].i
    /\ (\E j \in DOMAIN c_events : StageRank(c_events[j].stage) > 2)
          => Len(EventsOf("rendering")) = page_count
    /\ Len(EventsOf("saving")) <= 1
    /\ Len(EventsOf("done")) <= 1
    /\ EventsOf("done") # <<>> <=> c_result.tag = "Ok"
    /\ c_result.tag = "Ok" =>
          /\ c_events[Len(c_events)].stage = "done"
          /\ c_events[Len(c_events) - 1].stage = "saving"

C10_Witness ==
    /\ c_result.tag = "Ok"
    /\ page_count = 6
    /\ [j \in 1 .. 3 |-> EventsOf("building")[j].i] = <<0, 1, 6>>
    /\ Len(c_events) = 12

-----------------------------------------------------------------------------
(***************************************************************************)
(* The structure of the assembled document.                                *)
(***************************************************************************)
PageNodes(doc) == {id \in DOMAIN doc.objects : HasPage(doc, id)}

\* the structure lines 141-179 / 391-432 leave behind
TreeClosed(doc) ==
    /\ "Root" \in DOMAIN doc.trailer
    /\ doc.trailer.Root \in DOMAIN doc.objects
    /\ Catalog(doc).Type = "Catalog"
    /\ Catalog(doc).Pages \in DOMAIN doc.objects
    /\ PageTree(doc).Type = "Pages"
    /\ Cardinality(PageNodes(doc)) = page_count
    /\ \A id \in PageNodes(doc) :
          /\ "Parent" \in DOMAIN doc.objects[id].dict
          /\ doc.objects[id].dict.Parent = Catalog(doc).Pages
          /\ id < Catalog(doc).Pages

\* C13: once assembly is over (the document is about to be saved, or has been
\* returned), every page node carries a Parent that is the id of the page-tree node,
\* the page-tree node's id is above every page node's (ids are handed out in
\* allocation order), the catalog's Pages is the page-tree node, the trailer's Root
\* is the catalog, and there are as many page nodes as source pages.
C13_TreeIsClosed ==
    /\ b_pc = "save" => TreeClosed(b_doc)
    /\ b_result.tag = "Ok" => TreeClosed(b_result.val)
    /\ c_pc = "save" => TreeClosed(c_doc)
    /\ c_result.tag = "Ok" => TreeClosed(c_result.val)

C13_Witness ==
    /\ b_pc = "save" /\ c_result.tag = "Ok"
    /\ page_count = 3
    /\ PageNodes(b_doc) = {1, 5, 9}
    /\ Catalog(b_doc).Pages = 13

\* the name page node id invokes, and its resource table
InvokedName(doc, id) == doc.objects[doc.objects[id].dict.Contents].content.Do
XObjects(doc, id)    == doc.objects[doc.objects[id].dict.Resources].dict.XObject

ImagesWired(doc) ==
    LET Kids == PageTree(doc).Kids
    IN  /\ Len(Kids) = page_count
        /\ \A k \in 1 .. page_count :
              /\ DOMAIN XObjects(doc, Kids[k]) = {InvokedName(doc, Kids[k])}
              /\ PageImage(doc, Kids[k]).kind = "Stream"
              /\ PageImage(doc, Kids[k]).dict.Subtype = "Image"
              /\ PageImage(doc, Kids[k]).content = JpegOf(k - 1)
        /\ \A k, l \in 1 .. page_count :
              k # l => InvokedName(doc, Kids[k]) # InvokedName(doc, Kids[l])

\* C14: in a returned document, for every page position the name the placement
\* stream invokes is the one key of that page's resource table, the key maps to an
\* image stream whose payload is the encoded bytes of that source page, and two
\* different positions invoke different names.
C14_ImagesWired ==
    /\ b_result.tag = "Ok" => ImagesWired(b_result.val)
    /\ c_result.tag = "Ok" => ImagesWired(c_result.val)

C14_Witness ==
    /\ b_result.tag = "Ok" /\ c_result.tag = "Ok"
    /\ page_count = 3
    /\ InvokedName(b_result.val, PageTree(b_result.val).Kids[3]) = <<"Im", 2>>
    /\ XObjects(b_result.val, 9) = (<<"Im", 2>> :> 10)

\* the step in which task t ends and its PdfProcessed is handled
TaskEnds(t) == t \in DOMAIN a_tasks /\ a_tasks' = Remove(a_tasks, t)

\* C11: in App, (a) the step that handles PdfProcessed(Err(e)) leaves processing
\* false, progress_message None and result = Some(Err(e)); (b) while result is an
\* error nothing is being processed, no progress text is shown and nothing is
\* offered for download; (c) from ProcessPdf on a loaded file until the PdfProcessed
\* of that conversion, result is None.
C11_ErrorClearsAndResultResets ==
    /\ [][\A t \in DOMAIN a_tasks :
            TaskEnds(t) /\ TaskResult(a_tasks[t].data, a_tasks[t].dpi).tag = "Err" =>
               /\ ~a_processing'
               /\ a_progress_message' = None
               /\ a_result' = Some(TaskResult(a_tasks[t].data, a_tasks[t].dpi))
               /\ ~Downloadable']_vars
    /\ [](a_result.tag = "Some" /\ a_result.val.tag = "Err" =>
               ~a_processing /\ a_progress_message = None /\ ~Downloadable)
    /\ [](Len(a_tasks) > 0 => a_result = None)

C11_Witness ==
    /\ a_result = Some(Err(<<"エラー: ", "page">>))
    /\ a_file = Some(DataOf([name |-> <<"c", ".pdf">>, content |-> "bad_page"]))
    /\ a_file_reader.val.file.name = <<"a", ".pdf">> /\ a_file_reader.val.pending
    /\ a_dpi = 300

\* C12: every back-reference to a page node (the Kids entries and the targets of the
\* Parent backfill, both read from page_ids) is an identity captured from the
\* allocation of that page node, none is the value of a formula over the page
\* position.
C12_BackReferencesCaptured ==
    /\ b_pc = "save" =>
          \A i \in 1 .. Len(b_image_data) :
              /\ BatchPageIdOrigins(b_image_data)[i].id = PageTree(b_doc).Kids[i]
              /\ BatchPageIdOrigins(b_image_data)[i].origin = "captured"
    /\ c_pc = "save" =>
          \A i \in 1 .. Len(c_image_data) :
              /\ CoopPageIdOrigins(c_image_data)[i].id = PageTree(c_doc).Kids[i]
              /\ CoopPageIdOrigins(c_image_data)[i].origin = "captured"

-----------------------------------------------------------------------------
(***************************************************************************)
(* The yields of the cooperative driver.                                   *)
(***************************************************************************)
\* the step that calls process_page, and the step that builds one page node
ConvertStep == c_pc = "render" /\ c_since_resume' = c_since_resume + 1
BuildStep   == c_pc \in {"assemble", "add_page"} /\ c_since_resume' = c_since_resume + 1

LastEvent(events) == events[Len(events)]

\* C15: in the cooperative driver (a) at most one page is converted and at most five
\* page nodes are built between two awaits; (b) the step that converts a page runs
\* outside an await, reports the page it converts and, when the page converts, ends
\* suspended in the next await, having appended the result of the page whose index
\* is the number of pages converted before it; (c) a page node at a position
\* divisible by 5 is built first after an await, right after the report of that
\* position; (d) image_data is in index order; (e) a pending await always completes.
C15_YieldsBetweenPages ==
    /\ [](c_pc = "render" => c_since_resume <= 1)
    /\ [](c_since_resume <= 5)
    /\ [][ConvertStep =>
            /\ ~c_waiting
            /\ c_events' = Append(c_events, RenderingEvent(Len(c_image_data) + 1, page_count))
            /\ pages[Len(c_image_data) + 1].ok =>
                  /\ c_waiting'
                  /\ Len(c_image_data') = Len(c_image_data) + 1
                  /\ c_image_data'[Len(c_image_data')][1] = Len(c_image_data)]_vars
    /\ [][BuildStep /\ c_page_num % 5 = 0 =>
            /\ c_since_resume = 0
            /\ LastEvent(c_events) = BuildingEvent(c_page_num, Len(c_image_data))]_vars
    /\ [](\A k \in 1 .. Len(c_image_data) : c_image_data[k][1] = k - 1)
    /\ (c_waiting ~> ~c_waiting)

C15_Witness ==
    /\ page_count = 6
    /\ c_pc = "assemble" /\ c_page_num = 5 /\ c_since_resume = 5
    /\ Len(c_events) = 9
    /\ LastEvent(c_events) = BuildingEvent(0, 6)

\* the first n iterations took the ids 1 .. 4n, four each: page node, image,
\* placement stream, resource table
FourPerPage(doc, n) ==
    /\ 1 .. 4 * n \subseteq DOMAIN doc.objects
    /\ \A i \in 0 .. n - 1 :
          /\ HasPage(doc, 1 + 4 * i)
          /\ doc.objects[1 + 4 * i].dict.Contents = 3 + 4 * i
          /\ doc.objects[1 + 4 * i].dict.Resources = 4 + 4 * i
          /\ doc.objects[2 + 4 * i].kind = "Stream"
          /\ doc.objects[2 + 4 * i].content = JpegOf(i)
          /\ doc.objects[3 + 4 * i].kind = "Stream"
          /\ doc.objects[3 + 4 * i].content.Do = ImName(i)
          /\ doc.objects[4 + 4 * i].kind = "Dictionary"
          /\ doc.objects[4 + 4 * i].dict.XObject = (ImName(i) :> 2 + 4 * i)

\* the loop has run n times on a fresh document and nothing else was allocated
DuringAssembly(doc, n) ==
    /\ doc.max_id = 4 * n
    /\ DOMAIN doc.objects = 1 .. 4 * n
    /\ FourPerPage(doc, n)

AfterAssembly(doc) ==
    /\ doc.max_id = 4 * page_count + 2
    /\ FourPerPage(doc, page_count)
    /\ PageTree(doc).Kids = [k \in 1 .. page_count |-> 1 + 4 * (k - 1)]
    /\ \A k \in 1 .. page_count :
          /\ HasPage(doc, PageTree(doc).Kids[k])
          /\ "Parent" \in DOMAIN doc.objects[PageTree(doc).Kids[k]].dict

\* C16: in both library assemblers, after n iterations of the page loop the object
\* table of the fresh document is exactly the ids 1 .. 4n, and for every i < n the
\* ids 1+4i, 2+4i, 3+4i, 4+4i are the page node, image, placement stream and
\* resource table of page i; after the loop every Kids entry is 1+4i, is a page
\* node, and has received its Parent.
C16_FourIdsPerPage ==
    /\ b_pc = "assemble" => DuringAssembly(b_doc, b_page_num)
    /\ c_pc \in {"assemble", "add_page"} => DuringAssembly(c_doc, c_page_num)
    /\ b_pc = "save" => AfterAssembly(b_doc)
    /\ c_pc = "save" => AfterAssembly(c_doc)
    /\ b_result.tag = "Ok" => AfterAssembly(b_result.val)
    /\ c_result.tag = "Ok" => AfterAssembly(c_result.val)

C16_Witness ==
    /\ b_pc = "assemble" /\ b_page_num = 2 /\ page_count = 3
    /\ c_result.tag = "Ok"
    /\ b_doc.max_id = 8
    /\ HasPage(b_doc, 5)
    /\ PageTree(c_result.val).Kids = <<1, 5, 9>>

\* C17: in App, whenever result is Some(Ok(bytes)), bytes is the conversion of the
\* bytes now in file, and file_name is the name of the file they were read from;
\* and processing holds exactly while a conversion task is in flight.
C17_ResultBelongsToFile ==
    /\ Downloadable =>
          /\ a_file = Some([bytes_of |-> a_result.val.val.rasterized, content |-> "pdf"])
          /\ a_file_name = Some(<<a_result.val.val.rasterized, ".pdf">>)
    /\ a_processing <=> Len(a_tasks) > 0

=============================================================================
